---- MODULE Spec2Model ----
(***************************************************************************)
(* State-machine model of the x402 chess gateway (src/index.ts) and its    *)
(* schema converter (src/lib/schema.ts).                                   *)
(*                                                                         *)
(* JavaScript strings are sequences of one-character strings, JSON values  *)
(* are tagged records [t, v], JSON objects are functions from key names to *)
(* JSON values (objects are unordered, as JSON values are).                *)
(***************************************************************************)
EXTENDS Integers, Sequences, FiniteSets, TLC

VARIABLES
    env,        \* process.env after dotenv's config(): the three required values
    proc,       \* "boot" | "exited" | "listening"
    shape,      \* the declared object shape handed to the GET discovery converter
    descriptor, \* the discovery descriptor computed from shape (NoDescriptor before)
    pc,         \* per request: its position in the Express stack / in the async handler
    request,    \* per request: [route, query]
    gate,       \* per request: the payment gate's verdict
    handlerRan, \* per request: the /best-move route handler was entered
    calls,      \* per request: the outbound fetch calls issued for it
    reply,      \* per request: what the upstream answered to its fetch
    res         \* per request: the Express response object

vars == <<env, proc, shape, descriptor, pc, request, gate, handlerRan, calls, reply, res>>

----------------------------------------------------------------------------
(* Bounds of the model *)

NumRequests == 2
MaxDepthLen == 3
MaxFields == 2

(* Constants of the program *)

DepthMinLen == 1
DepthMaxLen == 2
DepthLow == 1
DepthHigh == 12
BadRequest == 400
InternalError == 500

Requests == 1 .. NumRequests

----------------------------------------------------------------------------
(* Sequences and strings *)

StringsUpTo(chars, n) == UNION { [1 .. k -> chars] : k \in 0 .. n }

\* t occurs in s as a contiguous run
Contains(s, t) ==
    \E i \in 0 .. (Len(s) - Len(t)) : \A j \in 1 .. Len(t) : s[i + j] = t[j]

HexDigits ==
    <<"0", "1", "2", "3", "4", "5", "6", "7", "8", "9", "a", "b", "c", "d", "e", "f">>

IsDigit(c, radix) == \E i \in 1 .. radix : HexDigits[i] = c

DigitValue(c) == (CHOOSE i \in 1 .. Len(HexDigits) : HexDigits[i] = c) - 1

\* `${n}` for a non-negative integer
RECURSIVE Digits(_)
Digits(n) ==
    IF n < 10 THEN <<HexDigits[n + 1]>>
    ELSE Append(Digits(n \div 10), HexDigits[(n % 10) + 1])

WhiteSpace == {" "}

RECURSIVE TrimLeft(_)
TrimLeft(s) ==
    IF s # <<>> /\ Head(s) \in WhiteSpace THEN TrimLeft(Tail(s)) ELSE s

RECURSIVE DigitPrefix(_, _)
DigitPrefix(s, radix) ==
    IF s # <<>> /\ IsDigit(Head(s), radix)
    THEN <<Head(s)>> \o DigitPrefix(Tail(s), radix)
    ELSE <<>>

RECURSIVE DigitsValue(_, _)
DigitsValue(z, radix) ==
    IF z = <<>> THEN 0
    ELSE DigitsValue(SubSeq(z, 1, Len(z) - 1), radix) * radix + DigitValue(z[Len(z)])

NaN == [nan |-> TRUE, n |-> 0]

\* ECMAScript parseInt(string) with no radix argument
parseInt(s) ==
    LET s1     == TrimLeft(s)
        signed == s1 # <<>> /\ Head(s1) \in {"+", "-"}
        sign   == IF s1 # <<>> /\ Head(s1) = "-" THEN -1 ELSE 1
        s2     == IF signed THEN Tail(s1) ELSE s1
        hex    == Len(s2) >= 2 /\ s2[1] = "0" /\ s2[2] \in {"x", "X"}
        radix  == IF hex THEN 16 ELSE 10
        s3     == IF hex THEN SubSeq(s2, 3, Len(s2)) ELSE s2
        z      == DigitPrefix(s3, radix)
    IN  IF z = <<>> THEN NaN ELSE [nan |-> FALSE, n |-> sign * DigitsValue(z, radix)]

----------------------------------------------------------------------------
(* JSON values *)

JNull == [t |-> "null", v |-> "null"]
JTrue == [t |-> "boolean", v |-> "true"]
JFalse == [t |-> "boolean", v |-> "false"]
JNum(v) == [t |-> "number", v |-> v]
JStr(v) == [t |-> "string", v |-> v]
JUndefined == [t |-> "undefined", v |-> ""]

EmptyObject == [k \in {} |-> JNull]

Restrict(f, keys) == [k \in (DOMAIN f) \cap keys |-> f[k]]

----------------------------------------------------------------------------
(* Startup configuration *)

EnvAbsent == "<undefined>"
EnvValues == {EnvAbsent, "", "value"}

\* !v for a string-or-undefined environment value
Falsy(v) == v = EnvAbsent \/ v = ""

ConfigMissing_all(e) ==
    Falsy(e.payTo) /\ Falsy(e.network) /\ Falsy(e.facilitatorUrl)

ConfigMissing(e) ==
    Falsy(e.payTo) \/ Falsy(e.network) \/ Falsy(e.facilitatorUrl)

----------------------------------------------------------------------------
(* The GET discovery converter *)

NoDefault == [has |-> FALSE, value |-> JUndefined]
WithDefault(v) == [has |-> TRUE, value |-> v]

\* z.toJSONSchema for one top-level field: "type" always, "description" and
\* "default" only when declared; .optional() only changes the object's own
\* "required" list, never the property
PropertySchema(f) ==
    [keys        |-> {"type"}
                     \cup (IF f.description # "" THEN {"description"} ELSE {})
                     \cup (IF f.default.has THEN {"default"} ELSE {}),
     type        |-> f.type,
     description |-> f.description,
     default     |-> IF f.default.has THEN f.default.value ELSE JUndefined]

toJSONSchema(sh) ==
    [type       |-> "object",
     properties |-> [k \in DOMAIN sh |-> PropertySchema(sh[k])],
     required   |-> { k \in DOMAIN sh : ~sh[k].optional /\ ~sh[k].default.has }]

\* JavaScript truthiness of a JSON value
Truthy(v) ==
    /\ v.t \notin {"undefined", "null"}
    /\ v \notin {JFalse, JStr(""), JNum("0")}

HasDefault_truthy(value) == "default" \in value.keys /\ Truthy(value.default)

\* "default" in value && value.default !== undefined
HasDefault(value) == "default" \in value.keys /\ value.default # JUndefined

inputSchemaToX402GET(sh) ==
    LET jsonSchema == toJSONSchema(sh)
    IN  [type   |-> "http",
         method |-> "GET",
         queryParams |->
            [key \in DOMAIN jsonSchema.properties |->
                LET value == jsonSchema.properties[key]
                IN  [keys        |-> value.keys \cup {"required"},
                     type        |-> value.type,
                     description |-> value.description,
                     default     |-> value.default,
                     required    |-> ~HasDefault(value)]]]

NoDescriptor == [type |-> "none", method |-> "none", queryParams |-> EmptyObject]

Field(type, description, optional, default) ==
    [type |-> type, description |-> description, optional |-> optional, default |-> default]

\* inputSchema of the /best-move route
inputSchema ==
    [k \in {"fen", "depth"} |->
        IF k = "fen"
        THEN Field("string", "FEN of the current chess position", FALSE, NoDefault)
        ELSE Field("string", "depth (1-12), optional, default 10", FALSE,
                   WithDefault(JStr("10")))]

----------------------------------------------------------------------------
(* Requests and upstream replies *)

QUndefined == [t |-> "undefined", s |-> <<>>]
QString(s) == [t |-> "string", s |-> s]
\* a repeated query parameter (?depth=1&depth=2) reaches the handler as an array
QArray == [t |-> "array", s |-> <<>>]

Query(fen, depth) == [fen |-> fen, depth |-> depth]

Routes == {"/best-move", "/healthz"}

\* the routes the payment middleware is configured for
ProtectedRoutes == {"/best-move"}

StartFen == <<"rnbqkbnr/pppppppp/8/8/8/8/PPPPPPPP/RNBQKBNR w KQkq - 0 1">>
EndFen == <<"8/8/8/8/8/8/8/K6k w - - 0 1">>

DepthChars == {"0", "1", "2", "3", "a", "x", "-", "+", " "}

SampleQueries ==
    { Query(QString(StartFen), QString(<<"1">>)),
      Query(QString(EndFen), QString(<<"1", "2">>)),
      Query(QString(EndFen), QString(<<"1", "3">>)),
      Query(QUndefined, QUndefined) }

WideQueries ==
    { Query(f, d) :
        f \in {QUndefined, QArray, QString(<<>>), QString(StartFen)},
        d \in {QUndefined, QArray}
              \cup { QString(s) : s \in StringsUpTo(DepthChars, MaxDepthLen) } }

AnalysisKeys == {"success", "evaluation", "bestmove", "mate"}

Analysis(evaluation, bestmove, mate) ==
    [k \in AnalysisKeys |->
        CASE k = "success" -> JTrue
          [] k = "evaluation" -> evaluation
          [] k = "bestmove" -> bestmove
          [] OTHER -> mate]

\* the body of an upstream reply: not JSON at all, or a JSON document that is
\* an object (props) or is not (an array, a string, null, ...)
NotJson == [json |-> FALSE, object |-> FALSE, props |-> EmptyObject]
JsonObject(props) == [json |-> TRUE, object |-> TRUE, props |-> props]
JsonNonObject == [json |-> TRUE, object |-> FALSE, props |-> EmptyObject]

NetworkError == [kind |-> "networkError", status |-> 0, statusText |-> "", body |-> NotJson]
Http(status, statusText, body) ==
    [kind |-> "http", status |-> status, statusText |-> statusText, body |-> body]
NoReply == [kind |-> "none", status |-> 0, statusText |-> "", body |-> NotJson]

MoveA == Analysis(JNum("0.3"), JStr("bestmove e2e4 ponder e7e5"), JNull)
MoveB == Analysis(JNum("-12"), JStr("bestmove a1a2"), JNum("3"))

SampleReplies ==
    { Http(503, "Service Unavailable", NotJson),
      Http(200, "OK", JsonObject(MoveA)),
      Http(200, "OK", JsonObject(MoveB)),
      Http(200, "OK", JsonObject(Restrict(MoveA, AnalysisKeys \ {"bestmove"}))) }

\* every object over the four declared keys and one undeclared key, each key
\* missing or holding one of a few values of different JSON types
WideObjects ==
    { [k \in keys |-> vals[k]] :
        keys \in SUBSET (AnalysisKeys \cup {"continuation"}),
        vals \in [ success      : {JTrue, JFalse},
                   evaluation   : {JNum("0.3"), JStr("0.3")},
                   bestmove     : {JStr("bestmove e2e4 ponder e7e5"), JNum("4")},
                   mate         : {JNull, JNum("3"), JStr("3")},
                   continuation : {JStr("e2e4 e7e5")} ] }

WideReplies ==
    {NetworkError}
    \cup { Http(s[1], s[2], NotJson) :
             s \in {<<304, "Not Modified">>, <<404, "Not Found">>,
                    <<503, "Service Unavailable">>} }
    \cup { Http(200, "OK", b) :
             b \in {NotJson, JsonNonObject} \cup { JsonObject(o) : o \in WideObjects } }

\* Response.ok
ok(response) == response.status >= 200 /\ response.status <= 299

----------------------------------------------------------------------------
(* Request validation *)

DepthDefault == <<"1", "0">>

\* inputSchema.safeParse(req.query): fen a string; depth absent (the default
\* applies) or a string of 1 to 2 characters
inputSchema_safeParse(q) ==
    LET fenOk   == q.fen.t = "string"
        depthOk == \/ q.depth.t = "undefined"
                   \/ /\ q.depth.t = "string"
                      /\ Len(q.depth.s) >= DepthMinLen
                      /\ Len(q.depth.s) <= DepthMaxLen
    IN  [success |-> fenOk /\ depthOk,
         data    |-> [fen   |-> q.fen.s,
                      depth |-> IF q.depth.t = "undefined" THEN DepthDefault
                                ELSE q.depth.s]]

DepthRejected_noUpper(depthNumber) == depthNumber.nan \/ depthNumber.n < DepthLow

\* isNaN(depthNumber) || depthNumber < 1 || depthNumber > 12
DepthRejected(depthNumber) ==
    depthNumber.nan \/ depthNumber.n < DepthLow \/ depthNumber.n > DepthHigh

----------------------------------------------------------------------------
(* Response validation *)

responseSchema_accepts_partial(data) ==
    /\ data.object
    /\ {"success", "evaluation", "mate"} \subseteq DOMAIN data.props
    /\ data.props["success"] = JTrue
    /\ data.props["evaluation"].t = "number"
    /\ "bestmove" \in DOMAIN data.props => data.props["bestmove"].t = "string"
    /\ data.props["mate"].t \in {"number", "null"}

\* responseSchema.parse(data) does not throw
responseSchema_accepts(data) ==
    /\ data.object
    /\ AnalysisKeys \subseteq DOMAIN data.props
    /\ data.props["success"] = JTrue
    /\ data.props["evaluation"].t = "number"
    /\ data.props["bestmove"].t = "string"
    /\ data.props["mate"].t \in {"number", "null"}

responseSchema_parse_passthrough(data) == data.props

\* what responseSchema.parse(data) returns: z.object keeps the declared keys
\* and strips every other key
responseSchema_parse(data) == Restrict(data.props, AnalysisKeys)

----------------------------------------------------------------------------
(* The Express response object *)

NewResponse ==
    [headersSent |-> FALSE, sent |-> <<>>, lateWrites |-> 0,
     threwAfterSend |-> FALSE, escaped |-> FALSE]

\* how a res.json call ends: normally, or by an exception raised once the
\* response has gone out
SendOutcomes == {"ok", "throwsAfterSend"}

\* res.status(status).json(body): a write on a response whose headers are
\* already sent is a second response attempt
Write(rs, status, body) ==
    IF rs.headersSent
    THEN [rs EXCEPT !.lateWrites = @ + 1]
    ELSE [rs EXCEPT !.headersSent = TRUE,
                    !.sent = Append(@, [status |-> status, body |-> body])]

ErrorBody(message) == [error |-> "Internal server error", message |-> message]

Catch_unguarded(rs, message, outcome) ==
    LET w == Write(rs, InternalError, ErrorBody(message))
    IN  IF outcome = "ok" THEN w ELSE [w EXCEPT !.escaped = TRUE]

\* the handler's catch block: a 500 unless a response was already sent; an
\* exception of its own res.json leaves the handler
Catch(rs, message, outcome) ==
    IF ~rs.headersSent
    THEN LET w == Write(rs, InternalError, ErrorBody(message))
         IN  IF outcome = "ok" THEN w ELSE [w EXCEPT !.escaped = TRUE]
    ELSE rs

\* a res.json inside the try block, and the catch block when it throws
TrySend(rs, status, body, outcome) ==
    LET w == Write(rs, status, body)
    IN  IF outcome = "ok" THEN w
        ELSE Catch([w EXCEPT !.threwAfterSend = TRUE], <<"write after end">>, "ok")

UpstreamMessage_noStatus(response) ==
    <<"Stockfish API returned ">> \o <<": ", response.statusText>>

\* `Stockfish API returned ${response.status}: ${response.statusText}`
UpstreamMessage(response) ==
    <<"Stockfish API returned ">> \o Digits(response.status)
        \o <<": ", response.statusText>>

----------------------------------------------------------------------------
(* The Express stack, in registration order *)

Stack_routeFirst == <<"route", "payment", "static">>

\* app.use(paymentMiddleware(...)), app.use(express.static(...)), app.get(...)
Stack == <<"payment", "static", "route">>

\* where next() leads from layer l
LayerAfter(l) ==
    LET i == CHOOSE j \in 1 .. Len(Stack) : Stack[j] = l
    IN  IF i < Len(Stack) THEN Stack[i + 1] ELSE "unrouted"

NoRequest == [route |-> "", query |-> Query(QUndefined, QUndefined)]

FirstRequest == CHOOSE r \in Requests : \A q \in Requests : r <= q

response_shared(r) ==
    IF \E q \in Requests \ {r} : reply[q] # NoReply
    THEN reply[CHOOSE q \in Requests \ {r} : reply[q] # NoReply]
    ELSE reply[r]

\* const response = await fetch(url): the settled fetch of this invocation
response(r) == reply[r]

----------------------------------------------------------------------------
(* Initial states *)

InitRequests ==
    /\ pc = [r \in Requests |-> "idle"]
    /\ request = [r \in Requests |-> NoRequest]
    /\ gate = [r \in Requests |-> "none"]
    /\ handlerRan = [r \in Requests |-> FALSE]
    /\ calls = [r \in Requests |-> <<>>]
    /\ reply = [r \in Requests |-> NoReply]
    /\ res = [r \in Requests |-> NewResponse]

Init ==
    /\ env \in [payTo : EnvValues, network : EnvValues, facilitatorUrl : EnvValues]
    /\ proc = "boot"
    /\ shape = inputSchema
    /\ descriptor = NoDescriptor
    /\ InitRequests

----------------------------------------------------------------------------
(* Startup *)

\* a required value is missing: process.exit(1) before anything is registered
BootExit ==
    /\ proc = "boot"
    /\ ConfigMissing(env)
    /\ proc' = "exited"
    /\ UNCHANGED <<env, shape, descriptor, pc, request, gate, handlerRan, calls, reply, res>>

\* the descriptors are computed, the stack is assembled, app.listen(4021)
BootListen ==
    /\ proc = "boot"
    /\ ~ConfigMissing(env)
    /\ descriptor' = inputSchemaToX402GET(shape)
    /\ proc' = "listening"
    /\ UNCHANGED <<env, shape, pc, request, gate, handlerRan, calls, reply, res>>

----------------------------------------------------------------------------
(* One request through the stack *)

Receive(r, route, q) ==
    /\ proc = "listening"
    /\ pc[r] = "idle"
    /\ request' = [request EXCEPT ![r] = [route |-> route, query |-> q]]
    /\ pc' = [pc EXCEPT ![r] = Stack[1]]
    /\ UNCHANGED <<env, proc, shape, descriptor, gate, handlerRan, calls, reply, res>>

Arrive(r) ==
    /\ pc[r] = "idle"
    /\ \/ \E q \in SampleQueries : Receive(r, "/best-move", q)
       \/ Receive(r, "/healthz", Query(QUndefined, QUndefined))

ArriveWide(r) ==
    /\ pc[r] = "idle"
    /\ \/ \E q \in WideQueries : Receive(r, "/best-move", q)
       \/ Receive(r, "/healthz", Query(QUndefined, QUndefined))

\* the payment middleware verifies the payment and calls next()
GatePass(r) ==
    /\ pc[r] = "payment"
    /\ request[r].route \in ProtectedRoutes
    /\ gate' = [gate EXCEPT ![r] = "passed"]
    /\ pc' = [pc EXCEPT ![r] = LayerAfter("payment")]
    /\ UNCHANGED <<env, proc, shape, descriptor, request, handlerRan, calls, reply, res>>

\* the payment middleware answers 402 itself and never calls next()
GateBlock(r) ==
    /\ pc[r] = "payment"
    /\ request[r].route \in ProtectedRoutes
    /\ gate' = [gate EXCEPT ![r] = "blocked"]
    /\ res' = [res EXCEPT ![r] = Write(@, 402, [error |-> <<"Payment required">>])]
    /\ pc' = [pc EXCEPT ![r] = "done"]
    /\ UNCHANGED <<env, proc, shape, descriptor, request, handlerRan, calls, reply>>

\* a route the middleware is not configured for goes straight through
GateSkip(r) ==
    /\ pc[r] = "payment"
    /\ request[r].route \notin ProtectedRoutes
    /\ pc' = [pc EXCEPT ![r] = LayerAfter("payment")]
    /\ UNCHANGED <<env, proc, shape, descriptor, request, gate, handlerRan, calls, reply, res>>

\* express.static finds no file of that name in public/ and calls next()
StaticMiss(r) ==
    /\ pc[r] = "static"
    /\ pc' = [pc EXCEPT ![r] = LayerAfter("static")]
    /\ UNCHANGED <<env, proc, shape, descriptor, request, gate, handlerRan, calls, reply, res>>

Healthz(r) ==
    /\ pc[r] = "route"
    /\ request[r].route = "/healthz"
    /\ res' = [res EXCEPT ![r] = Write(@, 200, [status |-> "ok"])]
    /\ pc' = [pc EXCEPT ![r] = "done"]
    /\ UNCHANGED <<env, proc, shape, descriptor, request, gate, handlerRan, calls, reply>>

\* the /best-move handler up to its first await: both validations, then
\* getBestMove up to await fetch(url)
HandlerStart(r) ==
    /\ pc[r] = "route"
    /\ request[r].route = "/best-move"
    /\ handlerRan' = [handlerRan EXCEPT ![r] = TRUE]
    /\ LET q           == request[r].query
           parsed      == inputSchema_safeParse(q)
           depth       == parsed.data.depth
           depthNumber == parseInt(depth)
       IN  IF ~parsed.success
           THEN /\ \E o \in SendOutcomes :
                     res' = [res EXCEPT ![r] =
                        TrySend(@, BadRequest,
                                [error |-> <<"Invalid request parameters, ">>,
                                 query |-> q], o)]
                /\ pc' = [pc EXCEPT ![r] = "done"]
                /\ UNCHANGED calls
           ELSE IF DepthRejected(depthNumber)
           THEN /\ \E o \in SendOutcomes :
                     res' = [res EXCEPT ![r] =
                        TrySend(@, BadRequest,
                                [error |-> <<"Invalid depth, must be a number between 1 and 12, got ">>
                                            \o depth], o)]
                /\ pc' = [pc EXCEPT ![r] = "done"]
                /\ UNCHANGED calls
           ELSE /\ calls' = [calls EXCEPT ![r] =
                        Append(@, [fen |-> parsed.data.fen, depth |-> depthNumber.n])]
                /\ pc' = [pc EXCEPT ![r] = "awaitFetch"]
                /\ UNCHANGED res
    /\ UNCHANGED <<env, proc, shape, descriptor, request, gate, reply>>

Settle_retry(r, rep, o) ==
    /\ pc[r] = "awaitFetch"
    /\ reply' = [reply EXCEPT ![r] = rep]
    /\ IF rep.kind = "networkError" \/ ~ok(rep)
       THEN IF Len(calls[r]) < 2
            THEN /\ calls' = [calls EXCEPT ![r] = Append(@, @[1])]
                 /\ UNCHANGED <<pc, res>>
            ELSE /\ res' = [res EXCEPT ![r] = Catch(@, <<"fetch failed">>, o)]
                 /\ pc' = [pc EXCEPT ![r] = "done"]
                 /\ UNCHANGED calls
       ELSE /\ pc' = [pc EXCEPT ![r] = "awaitJson"]
            /\ UNCHANGED <<res, calls>>
    /\ UNCHANGED <<env, proc, shape, descriptor, request, gate, handlerRan>>

\* getBestMove once fetch settles with rep: a rejected fetch and a non-2xx
\* status both throw, through to the handler's catch block; a 2xx goes on to
\* await response.json()
Settle(r, rep, o) ==
    /\ pc[r] = "awaitFetch"
    /\ reply' = [reply EXCEPT ![r] = rep]
    /\ IF rep.kind = "networkError"
       THEN /\ res' = [res EXCEPT ![r] = Catch(@, <<"fetch failed">>, o)]
            /\ pc' = [pc EXCEPT ![r] = "done"]
       ELSE IF ~ok(rep)
       THEN /\ res' = [res EXCEPT ![r] = Catch(@, UpstreamMessage(rep), o)]
            /\ pc' = [pc EXCEPT ![r] = "done"]
       ELSE /\ pc' = [pc EXCEPT ![r] = "awaitJson"]
            /\ UNCHANGED res
    /\ UNCHANGED <<env, proc, shape, descriptor, request, gate, handlerRan, calls>>

FetchSettles(r) ==
    /\ pc[r] = "awaitFetch"
    /\ \E rep \in SampleReplies, o \in SendOutcomes : Settle(r, rep, o)

FetchSettlesWide(r) ==
    /\ pc[r] = "awaitFetch"
    /\ \E rep \in WideReplies, o \in SendOutcomes : Settle(r, rep, o)

\* once response.json() settles: a body that is not JSON and a body the
\* schema rejects both throw; otherwise the handler sends the parsed result
JsonSettles(r) ==
    /\ pc[r] = "awaitJson"
    /\ LET data == response(r).body
       IN  \E o \in SendOutcomes :
             res' = [res EXCEPT ![r] =
                IF ~data.json THEN Catch(@, <<"Unexpected token">>, o)
                ELSE IF ~responseSchema_accepts(data) THEN Catch(@, <<"ZodError">>, o)
                ELSE TrySend(@, 200, responseSchema_parse(data), o)]
    /\ pc' = [pc EXCEPT ![r] = "done"]
    /\ UNCHANGED <<env, proc, shape, descriptor, request, gate, handlerRan, calls, reply>>

----------------------------------------------------------------------------
(* Specifications *)

Next ==
    \/ BootExit
    \/ BootListen
    \/ \E r \in Requests :
         \/ Arrive(r)
         \/ GatePass(r)
         \/ GateBlock(r)
         \/ GateSkip(r)
         \/ StaticMiss(r)
         \/ Healthz(r)
         \/ HandlerStart(r)
         \/ FetchSettles(r)
         \/ JsonSettles(r)

\* concurrently handled requests, inputs and replies drawn from small samples
Spec == Init /\ [][Next]_vars

NextWide ==
    \/ BootExit
    \/ BootListen
    \/ ArriveWide(FirstRequest)
    \/ GatePass(FirstRequest)
    \/ GateBlock(FirstRequest)
    \/ GateSkip(FirstRequest)
    \/ StaticMiss(FirstRequest)
    \/ Healthz(FirstRequest)
    \/ HandlerStart(FirstRequest)
    \/ FetchSettlesWide(FirstRequest)
    \/ JsonSettles(FirstRequest)

\* one request, its query and the upstream's reply drawn from the wide sets
SpecWide == Init /\ [][NextWide]_vars

----------------------------------------------------------------------------
(* The converter on its own: any declared shape *)

FieldNames == {"fen", "depth", "region"}

\* a field: its type with a default of that type (null for a nullable one)
\* or with none, described or not, .optional() or not
FieldDecls ==
    { Field(td[1], d, o, td[2]) :
        td \in { <<"string", NoDefault>>, <<"string", WithDefault(JStr(""))>>,
                 <<"string", WithDefault(JStr("10"))>>, <<"string", WithDefault(JNull)>>,
                 <<"number", NoDefault>>, <<"number", WithDefault(JNum("0"))>>,
                 <<"boolean", NoDefault>>, <<"boolean", WithDefault(JFalse)>> },
        d \in {"", "a description"},
        o \in BOOLEAN }

Shapes ==
    UNION { [names -> FieldDecls] :
              names \in { n \in SUBSET FieldNames : Cardinality(n) <= MaxFields } }

InitConv ==
    /\ env = [payTo |-> "value", network |-> "value", facilitatorUrl |-> "value"]
    /\ proc = "boot"
    /\ shape \in Shapes
    /\ descriptor = NoDescriptor
    /\ InitRequests

\* console.log(inputSchemaToX402GET(...)) at module load
Convert ==
    /\ proc = "boot"
    /\ descriptor = NoDescriptor
    /\ descriptor' = inputSchemaToX402GET(shape)
    /\ UNCHANGED <<env, proc, shape, pc, request, gate, handlerRan, calls, reply, res>>

NextConv == Convert

SpecConv == InitConv /\ [][NextConv]_vars

----------------------------------------------------------------------------
(* Vocabulary of the claims *)

Statuses(r) == [i \in 1 .. Len(res[r].sent) |-> res[r].sent[i].status]

DecimalDigits == {"0", "1", "2", "3", "4", "5", "6", "7", "8", "9"}

RECURSIVE TrimRight(_)
TrimRight(s) ==
    IF s # <<>> /\ s[Len(s)] \in WhiteSpace
    THEN TrimRight(SubSeq(s, 1, Len(s) - 1))
    ELSE s

Unsigned(s) == IF s # <<>> /\ Head(s) \in {"+", "-"} THEN Tail(s) ELSE s

\* a decimal integer literal: optional sign, one or more digits, blanks
\* around it allowed
IsNumericString(s) ==
    LET body == Unsigned(TrimRight(TrimLeft(s)))
    IN  body # <<>> /\ \A i \in 1 .. Len(body) : body[i] \in DecimalDigits

RECURSIVE DecimalValue(_)
DecimalValue(body) ==
    IF body = <<>> THEN 0
    ELSE 10 * DecimalValue(SubSeq(body, 1, Len(body) - 1))
         + (CHOOSE d \in 0 .. 9 : HexDigits[d + 1] = body[Len(body)])

NumericValue(s) ==
    LET t == TrimRight(TrimLeft(s))
    IN  (IF t # <<>> /\ Head(t) = "-" THEN -1 ELSE 1) * DecimalValue(Unsigned(t))

\* the Analysis Result shape: success true, evaluation a number, bestmove a
\* string, mate a number or null
MatchesAnalysisResult(body) ==
    /\ body.json
    /\ body.object
    /\ \A k \in {"success", "evaluation", "bestmove", "mate"} : k \in DOMAIN body.props
    /\ body.props["success"] = JTrue
    /\ body.props["evaluation"].t = "number"
    /\ body.props["bestmove"].t = "string"
    /\ body.props["mate"].t \in {"number", "null"}

Answered2xx(r) ==
    reply[r].kind = "http" /\ reply[r].status \in 200 .. 299

AnsweredNon2xx(r) ==
    reply[r].kind = "http" /\ reply[r].status \notin 200 .. 299

----------------------------------------------------------------------------
(* Claims *)

\* C1: a /best-move request whose depth is a non-numeric string, or a number
\* outside [1,12], gets HTTP 400 and causes no upstream call.
C1_InvalidDepthRejected ==
    \A r \in Requests :
        LET d == request[r].query.depth
        IN  ( /\ handlerRan[r]
              /\ d.t = "string"
              /\ ~IsNumericString(d.s) \/ NumericValue(d.s) \notin DepthLow .. DepthHigh )
            => /\ calls[r] = <<>>
               /\ pc[r] = "done" => Statuses(r) = <<BadRequest>>

\* C2 as stated: an upstream 2xx whose body matches the Analysis Result shape
\* yields HTTP 200 with exactly the upstream payload.
C2_PayloadVerbatim ==
    \A r \in Requests :
        ( pc[r] = "done" /\ Answered2xx(r) /\ MatchesAnalysisResult(reply[r].body) )
        => /\ Statuses(r) = <<200>>
           /\ res[r].sent[1].body = reply[r].body.props

\* C2 amended: an upstream 2xx whose body matches the Analysis Result shape
\* yields HTTP 200 with the upstream payload's four declared fields, values
\* unchanged; any other field of the upstream payload is dropped.
C2_DeclaredFieldsVerbatim ==
    \A r \in Requests :
        ( pc[r] = "done" /\ Answered2xx(r) /\ MatchesAnalysisResult(reply[r].body) )
        => /\ Statuses(r) = <<200>>
           /\ DOMAIN res[r].sent[1].body = {"success", "evaluation", "bestmove", "mate"}
           /\ \A k \in DOMAIN res[r].sent[1].body :
                 res[r].sent[1].body[k] = reply[r].body.props[k]

C2_Witness ==
    \E r \in Requests :
        /\ pc[r] = "done"
        /\ Answered2xx(r)
        /\ MatchesAnalysisResult(reply[r].body)
        /\ "continuation" \in DOMAIN reply[r].body.props
        /\ Statuses(r) = <<200>>
        /\ "continuation" \notin DOMAIN res[r].sent[1].body

\* C3: an upstream non-2xx status S yields HTTP 500, never 200, with an error
\* message that contains S.
C3_UpstreamStatusSurfaced ==
    \A r \in Requests :
        ( pc[r] = "done" /\ AnsweredNon2xx(r) )
        => /\ Statuses(r) = <<InternalError>>
           /\ Contains(res[r].sent[1].body.message, Digits(reply[r].status))

C3_Witness ==
    \E r \in Requests :
        /\ pc[r] = "done"
        /\ reply[r].kind = "http"
        /\ reply[r].status = 503
        /\ Statuses(r) = <<InternalError>>
        /\ Contains(res[r].sent[1].body.message, <<"5", "0", "3">>)

\* C4: an upstream 2xx whose body does not match the Analysis Result shape
\* yields HTTP 500, never 200.
C4_MalformedBodyRejected ==
    \A r \in Requests :
        ( pc[r] = "done" /\ Answered2xx(r) /\ ~MatchesAnalysisResult(reply[r].body) )
        => Statuses(r) = <<InternalError>>

C4_Witness ==
    \E r \in Requests :
        /\ pc[r] = "done"
        /\ Answered2xx(r)
        /\ reply[r].body.object
        /\ DOMAIN reply[r].body.props = {"success", "evaluation", "mate"}
        /\ reply[r].body.props["success"] = JTrue
        /\ Statuses(r) = <<InternalError>>

\* C5: the /best-move handler runs, and an upstream call is made, only for a
\* request the payment gate has passed; a blocked request reaches neither.
C5_HandlerOnlyAfterGate ==
    \A r \in Requests :
        /\ (handlerRan[r] \/ calls[r] # <<>>) => gate[r] = "passed"
        /\ gate[r] = "blocked" => (~handlerRan[r] /\ calls[r] = <<>> /\ reply[r] = NoReply)

C5_Witness ==
    \E r1, r2 \in Requests :
        /\ gate[r1] = "blocked" /\ pc[r1] = "done" /\ ~handlerRan[r1]
        /\ gate[r2] = "passed" /\ handlerRan[r2] /\ calls[r2] # <<>>

\* C6: with any of the three required configuration values absent, the
\* process never listens and no request on any route is ever served.
C6_NoServiceWithoutConfig ==
    (\E k \in DOMAIN env : env[k] = EnvAbsent)
    => /\ proc # "listening"
       /\ descriptor = NoDescriptor
       /\ \A r \in Requests : pc[r] = "idle" /\ res[r] = NewResponse

C6_Witness ==
    /\ env.network = EnvAbsent
    /\ env.payTo = "value"
    /\ env.facilitatorUrl = "value"
    /\ proc = "exited"

C8_AtMostOneResponse ==
    \A r \in Requests : Len(res[r].sent) <= 1 /\ res[r].lateWrites = 0

C8_Witness ==
    \E r \in Requests :
        /\ pc[r] = "done"
        /\ handlerRan[r]
        /\ res[r].threwAfterSend
        /\ Statuses(r) = <<200>>

\* C9: at most one upstream call is issued per request; a failed call (a
\* network error, a non-2xx status, a malformed body) ends in HTTP 500
\* after that single call.
C9_SingleUpstreamCall ==
    \A r \in Requests :
        /\ Len(calls[r]) <= 1
        /\ ( /\ pc[r] = "done"
             /\ reply[r] # NoReply
             /\ ~(Answered2xx(r) /\ MatchesAnalysisResult(reply[r].body)) )
           => (Len(calls[r]) = 1 /\ Statuses(r) = <<InternalError>>)

C9_Witness ==
    \E r \in Requests :
        /\ pc[r] = "done"
        /\ reply[r] = NetworkError
        /\ Len(calls[r]) = 1
        /\ Statuses(r) = <<InternalError>>

\* what the handler answers to query q when the upstream's reply to its own
\* call is rep
OwnAnswer(q, rep) ==
    LET parsed == inputSchema_safeParse(q)
    IN  IF ~parsed.success \/ DepthRejected(parseInt(parsed.data.depth))
        THEN [status |-> BadRequest, payload |-> EmptyObject]
        ELSE IF ~(rep.kind = "http" /\ ok(rep) /\ rep.body.json
                  /\ responseSchema_accepts(rep.body))
        THEN [status |-> InternalError, payload |-> EmptyObject]
        ELSE [status |-> 200, payload |-> Restrict(rep.body.props, AnalysisKeys)]

\* C10: under any interleaving, what a request is answered is a function of
\* its own query and of the upstream's reply to its own call.
C10_OwnInputsOnly ==
    \A r \in Requests :
        ( pc[r] = "done" /\ handlerRan[r] )
        => LET own == OwnAnswer(request[r].query, reply[r])
           IN  /\ Statuses(r) = <<own.status>>
               /\ own.status = 200 => res[r].sent[1].body = own.payload

C10_Witness ==
    \E r1, r2 \in Requests :
        /\ pc[r1] = "done"
        /\ Statuses(r1) = <<200>>
        /\ pc[r2] = "awaitJson"
        /\ reply[r2] # reply[r1]
        /\ request[r2].query # request[r1].query
        /\ res[r1].sent[1].body = Restrict(reply[r1].body.props, AnalysisKeys)

====
